---- MODULE Spec2Model ----
(***************************************************************************)
(* Plan-based orchestration engine of hired/resume_agent.py:               *)
(* Plan / PlanStep (validate, get_executable_steps), the parts of          *)
(* ResumeSession that execute_plan drives (chat, switch_mode, save),       *)
(* ResumeExpertAgent.execute_plan, a ResumeSession driven directly with    *)
(* its SessionState and snapshots, and SessionStore (save, load, delete).  *)
(*                                                                         *)
(* A PlanStep is its id and its dependencies; action, description and      *)
(* params only feed the instruction text.  The dependencies list is kept   *)
(* as the set of its entries, iterated in ascending order.                 *)
(***************************************************************************)
EXTENDS Integers, Sequences, FiniteSets, TLC

VARIABLES
    plan,             \* Plan.steps: sequence of [id, dependencies]
    interactive,      \* execute_plan(interactive=...)
    auto_persist,     \* ResumeSession.auto_persist
    mode,             \* ResumeSession.mode
    history,          \* ConversationMemory._turns
    snapshots,        \* ResumeSession._snapshots
    stored,           \* the files SessionStore keeps for this session id
    pc,               \* position inside execute_plan
    errors,           \* execute_plan: errors = plan.validate()
    completed_steps,  \* execute_plan: completed_steps
    results,          \* execute_plan: results
    original_mode,    \* execute_plan: original_mode
    executable,       \* execute_plan: executable (indices into plan.steps)
    step,             \* execute_plan: index in plan.steps of executable[0]
    response,         \* execute_plan: response
    ret,              \* what execute_plan returned
    chatted,          \* steps handed to session.chat so far, in order
    skipped,          \* ids marked completed by a "skip" answer
    restores,         \* number of session.switch_mode(original_mode) calls
    mode0,            \* session.mode when execute_plan was called
    state,            \* SessionState._data of the live session
    data_dir,         \* data_dir the live session was constructed with
    files,            \* the session directories: files[dir][id] = [pkl, json]
    loaded,           \* the session the last load_session returned
    outcome,          \* the last call on the session or a store, and its result
    session_id,       \* ResumeSession.session_id of the live session
    listed,           \* what the last iteration of a store yielded, file by file
    max_recent_turns, \* ConversationMemory._max_recent_turns
    arg,              \* the arguments of the call made on its own
    result,           \* what that call returned
    heap              \* the dict objects of SessionState and its snapshots

vars == <<plan, interactive, auto_persist, mode, history, snapshots, stored,
          pc, errors, completed_steps, results, original_mode, executable,
          step, response, ret, chatted, skipped, restores, mode0,
          state, data_dir, files, loaded, outcome, session_id, listed,
          max_recent_turns, arg, result, heap>>

----------------------------------------------------------------------------
(* Bounds *)

MaxSteps == 2        \* longest plan handed to execute_plan
MaxId == 2           \* number of distinct step ids in those plans
MaxPlanSteps == 3    \* longest plan handed to validate alone
MaxPlanId == 2       \* number of distinct step ids in those plans
MaxAddr == 6         \* most dict objects of a SessionState and its snapshots
MaxSnapshots == 2    \* most snapshots of a SessionState held at once
MaxTurns == 3        \* longest turn history of the session driven directly

Ids == 1..(IF MaxId >= MaxPlanId THEN MaxId ELSE MaxPlanId)

\* plans of at most n steps whose ids and dependencies are among 1..k
PlansOf(n, k) ==
    UNION {[1..m -> [id : 1..k, dependencies : SUBSET (1..k)]] : m \in 0..n}

Plans == PlansOf(MaxSteps, MaxId)
PlanInputs == PlansOf(MaxPlanSteps, MaxPlanId)

Min(S) == CHOOSE x \in S : \A y \in S : x <= y
Max(S) == CHOOSE x \in S : \A y \in S : x >= y

RECURSIVE SortedSeq(_)
SortedSeq(S) == IF S = {} THEN <<>>
                ELSE LET m == Min(S) IN <<m>> \o SortedSeq(S \ {m})

----------------------------------------------------------------------------
(* PlanStep / Plan *)

can_execute_inverted(s, completed) ==
    \A dep_id \in s.dependencies : dep_id \notin completed

\* PlanStep.can_execute
can_execute(s, completed) ==
    \A dep_id \in s.dependencies : dep_id \in completed

get_executable_steps_reversed(p, completed) ==
    LET ex == SelectSeq([i \in 1..Len(p) |-> i],
                  LAMBDA i : p[i].id \notin completed /\ can_execute(p[i], completed))
    IN [k \in 1..Len(ex) |-> ex[Len(ex) + 1 - k]]

\* Plan.get_executable_steps: indices into plan.steps, in plan order
get_executable_steps(p, completed) ==
    SelectSeq([i \in 1..Len(p) |-> i],
              LAMBDA i : p[i].id \notin completed /\ can_execute(p[i], completed))

\* an error string of validate: its wording and the ids it names
\* (dep repeats the step id where the message names one id only)
Err(kind, sid, dep) == [kind |-> kind, step |-> sid, dep |-> dep]

\* step_ids = {step.id for step in self.steps}
step_ids(p) == {p[i].id : i \in DOMAIN p}

\* the body of "for step in self.steps" in validate
stepErrors(p, i) ==
    LET deps == SortedSeq(p[i].dependencies)
        miss == SelectSeq(deps, LAMBDA d : d \notin step_ids(p))
    IN [k \in 1..Len(miss) |-> Err("missing", p[i].id, miss[k])]
       \o (IF p[i].id \in p[i].dependencies
           THEN <<Err("self", p[i].id, p[i].id)>> ELSE <<>>)

RECURSIVE dependencyErrors(_, _)
dependencyErrors(p, n) ==
    IF n = 0 THEN <<>> ELSE dependencyErrors(p, n - 1) \o stepErrors(p, n)

\* graph = {step.id: list(step.dependencies) for step in self.steps}:
\* a later step with the same id replaces the value of the key
graph(p) ==
    [a \in step_ids(p) |-> p[Max({i \in DOMAIN p : p[i].id = a})].dependencies]

\* the keys of graph in insertion order (first occurrence of each id)
graphKeys(p) ==
    LET firsts == {i \in DOMAIN p : \A j \in 1..(i - 1) : p[j].id # p[i].id}
        idx == SortedSeq(firsts)
    IN [k \in 1..Len(idx) |-> p[idx[k]].id]

\* graph.get(node, [])
nbrsOf(g, node) == IF node \in DOMAIN g THEN g[node] ELSE {}

RECURSIVE dfs(_, _, _, _)
RECURSIVE dfsNbrs(_, _, _, _)
\* validate.dfs, with the two closure sets threaded through
dfs(g, node, visiting, visited) ==
    IF node \in visited
    THEN [found |-> FALSE, visiting |-> visiting, visited |-> visited]
    ELSE IF node \in visiting
    THEN [found |-> TRUE, visiting |-> visiting, visited |-> visited]
    ELSE LET r == dfsNbrs(g, SortedSeq(nbrsOf(g, node)), visiting \cup {node}, visited)
         IN IF r.found THEN r
            ELSE [found |-> FALSE, visiting |-> r.visiting \ {node},
                  visited |-> r.visited \cup {node}]

\* "for nbr in graph.get(node, []): if dfs(nbr): return True"
dfsNbrs(g, nbrs, visiting, visited) ==
    IF nbrs = <<>>
    THEN [found |-> FALSE, visiting |-> visiting, visited |-> visited]
    ELSE LET r == dfs(g, Head(nbrs), visiting, visited)
         IN IF r.found THEN r
            ELSE dfsNbrs(g, Tail(nbrs), r.visiting, r.visited)

RECURSIVE cycleErrors(_, _, _, _)
\* "for node in graph: if dfs(node): errors.append(...); break"
cycleErrors(g, keys, visiting, visited) ==
    IF keys = <<>> THEN <<>>
    ELSE LET r == dfs(g, Head(keys), visiting, visited)
         IN IF r.found THEN <<Err("cycle", Head(keys), Head(keys))>>
            ELSE cycleErrors(g, Tail(keys), r.visiting, r.visited)

validate_no_missing(p) ==
    SelectSeq(dependencyErrors(p, Len(p)), LAMBDA e : e.kind # "missing")
    \o cycleErrors(graph(p), graphKeys(p), {}, {})

\* Plan.validate
validate(p) ==
    dependencyErrors(p, Len(p)) \o cycleErrors(graph(p), graphKeys(p), {}, {})

----------------------------------------------------------------------------
(* ResumeSession, as far as execute_plan drives it *)

Modes == {"manual", "auto"}      \* OperationMode values

NoData == [mode |-> "", history |-> <<>>, snapshots |-> <<>>]
NoFile == [state |-> "none", data |-> NoData]        \* the file does not exist
Partial == [state |-> "partial", data |-> NoData]    \* truncated then not fully written
Full(d) == [state |-> "full", data |-> d]
NoRecord == [pkl |-> NoFile, json |-> NoFile]

Turn(role, content) == [role |-> role, content |-> content]

\* the session as the four parts that chat and switch_mode touch
World == [mode |-> mode, history |-> history, snapshots |-> snapshots,
          stored |-> stored]

\* session_data of save_session
session_data(w) == [mode |-> w.mode, history |-> w.history, snapshots |-> w.snapshots]

\* SessionStore.save_session: the files afterwards and whether it raised.
\* open(..., 'wb'/'w') truncates, so an error inside dump leaves a partial file.
write_files_keeps_existing(old, data) ==
    LET d == Full(data)
        pkl == IF old.pkl.state = "full" THEN old.pkl ELSE d
    IN
    { [files |-> [pkl |-> pkl, json |-> d], raised |-> FALSE],
      [files |-> old, raised |-> TRUE],
      [files |-> [pkl |-> Partial, json |-> old.json], raised |-> TRUE],
      [files |-> [pkl |-> pkl, json |-> old.json], raised |-> TRUE],
      [files |-> [pkl |-> pkl, json |-> Partial], raised |-> TRUE] }

\* the two writes of save_session, "{id}.pkl" then "{id}.json": the files
\* afterwards and whether a write raised
write_files(old, data) ==
    LET d == Full(data) IN
    { [files |-> [pkl |-> d, json |-> d], raised |-> FALSE],
      [files |-> old, raised |-> TRUE],
      [files |-> [pkl |-> Partial, json |-> old.json], raised |-> TRUE],
      [files |-> [pkl |-> d, json |-> old.json], raised |-> TRUE],
      [files |-> [pkl |-> d, json |-> Partial], raised |-> TRUE] }

save_session(w) == write_files(w.stored, session_data(w))

\* "if self.auto_persist: self.save()"
auto_save(w) ==
    IF auto_persist
    THEN {[w |-> [w EXCEPT !.stored = o.files], raised |-> o.raised] : o \in save_session(w)}
    ELSE {[w |-> w, raised |-> FALSE]}

\* ResumeSession.switch_mode
switch_mode(w, m) ==
    auto_save([w EXCEPT !.mode = m,
                        !.history = Append(@, Turn("system", m))])

\* ResumeSession._create_snapshot
create_snapshot(w) ==
    [w EXCEPT !.snapshots = Append(@, [turn_count |-> Len(w.history), mode |-> w.mode])]

ChatResponse == "resp"

\* ResumeSession.chat: the supervisor path may raise; the response is opaque
chat(w, user_message) ==
    LET w1 == [w EXCEPT !.history = Append(@, Turn("user", user_message))]
        w2 == create_snapshot(w1)
        w3 == [w2 EXCEPT !.history = Append(@, Turn("assistant", ChatResponse))]
    IN {[w |-> w2, raised |-> TRUE, response |-> ""]}
       \cup {[w |-> o.w, raised |-> o.raised,
              response |-> IF o.raised THEN "" ELSE ChatResponse] : o \in auto_save(w3)}

SetWorld(w) ==
    /\ mode' = w.mode
    /\ history' = w.history
    /\ snapshots' = w.snapshots
    /\ stored' = w.stored

----------------------------------------------------------------------------
(* SessionState, SessionStore and a ResumeSession with its state and store *)

\* the buckets of SessionState._data, in insertion order
Buckets == <<"candidate", "job", "extracted_entities", "expansions",
             "distillations", "drafts", "searches">>
BucketNames == {Buckets[k] : k \in DOMAIN Buckets}

\* _data after ResumeSession.__init__: each bucket is the set of its keys
InitData ==
    [b \in BucketNames |-> IF b \in {"candidate", "job"} THEN {"raw_info"} ELSE {}]

\* what the supervisor tools may store during one chat: <<bucket, key>>
ToolWrites == {<<"expansions", "brief_text">>, <<"drafts", "section_name">>}

\* self._state[bucket][key] = result, for every write in W
tool_writes(d, W) ==
    [b \in DOMAIN d |-> d[b] \cup {x[2] : x \in {y \in W : y[1] = b}}]

\* json.dumps of _data: the items in insertion order
json_dumps(d) ==
    [k \in {j \in DOMAIN Buckets : Buckets[j] \in DOMAIN d} |->
        [key |-> Buckets[k], value |-> d[Buckets[k]]]]

\* json.loads: the dict of the items read
json_loads(t) ==
    [b \in {t[k].key : k \in DOMAIN t} |->
        t[CHOOSE k \in DOMAIN t : t[k].key = b].value]

\* SessionState.snapshot
snapshot(d) == json_loads(json_dumps(d))

SessionIds == {"s1", "s2"}       \* "s1" is the live session's session_id
LiveId == "s1"
Dirs == {"default", "custom"}    \* SESSION_DATA_PATH and one other directory

NoFiles == [d \in Dirs |-> [i \in SessionIds |-> NoRecord]]

\* a ResumeSession, as far as a record carries it
Session(id, m, h, d, sn, ap) ==
    [session_id |-> id, mode |-> m, history |-> h, state |-> d,
     snapshots |-> sn, auto_persist |-> ap]

NoSession == Session("", "", <<>>, [b \in {} |-> {}], <<>>, FALSE)

\* the live session
Live == Session(session_id, mode, history, state, snapshots, auto_persist)

\* session_data of save_session, with the session id and the state
session_record(x) ==
    [session_id |-> x.session_id, mode |-> x.mode, history |-> x.history,
     state |-> snapshot(x.state), snapshots |-> x.snapshots]

load_session_default_mode(fp) ==
    IF fp.pkl.state = "none" THEN [session |-> NoSession, raised |-> FALSE]
    ELSE IF fp.pkl.state = "partial" THEN [session |-> NoSession, raised |-> TRUE]
    ELSE [session |-> Session(fp.pkl.data.session_id, "manual",
                              fp.pkl.data.history, fp.pkl.data.state, <<>>, FALSE),
          raised |-> FALSE]

\* SessionStore.load_session on the two files of one id
load_session(fp) ==
    IF fp.pkl.state = "none" THEN [session |-> NoSession, raised |-> FALSE]
    ELSE IF fp.pkl.state = "partial" THEN [session |-> NoSession, raised |-> TRUE]
    ELSE [session |-> Session(fp.pkl.data.session_id, fp.pkl.data.mode,
                              fp.pkl.data.history, fp.pkl.data.state, <<>>, FALSE),
          raised |-> FALSE]

store_len_counts_files(dirfiles) ==
    Cardinality({i \in SessionIds : dirfiles[i].json.state = "full"})
    + Cardinality({i \in SessionIds : dirfiles[i].pkl.state = "full"})

\* SessionStore.__len__: the *.json files list_sessions can read
store_len(dirfiles) ==
    Cardinality({i \in SessionIds : dirfiles[i].json.state = "full"})

\* ResumeSession.save: "store = self._store or SessionStore(data_dir=data_dir)";
\* an empty SessionStore is falsy (its __len__ is 0)
save_dir(fs, ap, own, param) ==
    IF ap /\ store_len(fs[own]) > 0 THEN own ELSE param

\* store.save_session(x) on the store of directory dir
store_save(fs, dir, x) ==
    {[files |-> [fs EXCEPT ![dir][x.session_id] = o.files], raised |-> o.raised] :
        o \in write_files(fs[dir][x.session_id], session_record(x))}

session_auto_save_always(fs, x, own) ==
    store_save(fs, save_dir(fs, x.auto_persist, own, "default"), x)

\* "if self.auto_persist: self.save()"
session_auto_save(fs, x, own) ==
    IF x.auto_persist
    THEN store_save(fs, save_dir(fs, x.auto_persist, own, "default"), x)
    ELSE {[files |-> fs, raised |-> FALSE]}

delete_session_keeps_json(fs, dir, id) ==
    [files |-> [fs EXCEPT ![dir][id].pkl = NoFile],
     deleted |-> fs[dir][id].pkl.state # "none" \/ fs[dir][id].json.state # "none"]

\* SessionStore.delete_session: the files afterwards and the value returned
delete_session(fs, dir, id) ==
    [files |-> [fs EXCEPT ![dir][id] = NoRecord],
     deleted |-> fs[dir][id].pkl.state # "none" \/ fs[dir][id].json.state # "none"]

\* SessionStore.list_sessions: a summary for every "*.json" file that can be
\* read, here under the id in the name of the file
list_sessions(dirfiles) ==
    [i \in {j \in SessionIds : dirfiles[j].json.state = "full"} |->
        [session_id |-> dirfiles[i].json.data.session_id,
         turn_count |-> Len(dirfiles[i].json.data.history),
         mode |-> dirfiles[i].json.data.mode]]

\* SessionStore.__iter__: info['session_id'] of every summary
store_iter(dirfiles) ==
    [i \in DOMAIN list_sessions(dirfiles) |-> list_sessions(dirfiles)[i].session_id]

\* "key in store": Mapping.__contains__ is False only when store[key] raises
\* KeyError, and __getitem__ returns load_session(key)
store_contains(fp) ==
    [value |-> ~load_session(fp).raised, raised |-> load_session(fp).raised]

\* store.get(key, default): Mapping.get gives default only when store[key]
\* raises KeyError
store_get(fp) ==
    [value |-> IF load_session(fp).session = NoSession THEN "None" ELSE "session",
     raised |-> load_session(fp).raised]

\* the session __setitem__ hands to save_session: a deep copy with the id
\* aligned when the ids differ
setitem_session(x, id) ==
    IF x.session_id # id THEN [x EXCEPT !.session_id = id] ELSE x

NoOutcome == [op |-> "", raised |-> FALSE, value |-> "", worker |-> "",
              dir |-> "", id |-> "", existed |-> FALSE]

\* the state of the calls made on their own
callVars == <<max_recent_turns, arg, result, heap>>

\* no such call is made
CallIdle ==
    /\ max_recent_turns = 10
    /\ arg = <<>>
    /\ result = <<>>
    /\ heap = <<>>

storeVars == <<state, data_dir, files, loaded, outcome, session_id, listed, callVars>>

\* no session is driven directly
StoreIdle ==
    /\ state = InitData
    /\ data_dir = "default"
    /\ files = NoFiles
    /\ loaded = NoSession
    /\ outcome = NoOutcome
    /\ session_id = LiveId
    /\ listed = <<>>
    /\ CallIdle

----------------------------------------------------------------------------
(* ResumeExpertAgent.execute_plan *)

\* what the approval callback (or input()) may answer
Answers == {"y", "approve", "decline", "n", "N", "skip", "Skip"}

\* str.lower on the answers
lower(s) == IF s = "N" THEN "n" ELSE IF s = "Skip" THEN "skip" ELSE s

\* _step_to_instruction: the text depends on the step only
step_to_instruction(i) == i

NoRet == [success |-> FALSE, error |-> "none", errors |-> <<>>,
          completed_steps |-> {}, results |-> <<>>]

planVars == <<plan, interactive, auto_persist, mode0, storeVars>>
sessionVars == <<mode, history, snapshots, stored>>

Init ==
    /\ plan \in Plans
    /\ interactive \in BOOLEAN
    /\ auto_persist \in BOOLEAN
    /\ mode \in Modes
    /\ mode0 = mode
    /\ history = <<>>
    /\ snapshots = <<>>
    /\ stored = NoRecord
    /\ pc = "idle"
    /\ errors = <<>>
    /\ completed_steps = {}
    /\ results = <<>>
    /\ original_mode = mode
    /\ executable = <<>>
    /\ step = 0
    /\ response = ""
    /\ ret = NoRet
    /\ chatted = <<>>
    /\ skipped = {}
    /\ restores = 0
    /\ StoreIdle

\* "finally: session.switch_mode(original_mode)", then return r or propagate
Finally(w, r, exc) ==
    \E o \in switch_mode(w, original_mode) :
        /\ SetWorld(o.w)
        /\ restores' = restores + 1
        /\ IF exc \/ o.raised
           THEN pc' = "raised" /\ ret' = ret
           ELSE pc' = "returned" /\ ret' = r

StartInvalid_switches ==
    /\ pc = "idle"
    /\ validate(plan) # <<>>
    /\ errors' = validate(plan)
    /\ ret' = [NoRet EXCEPT !.error = "invalid", !.errors = errors']
    /\ pc' = "returned"
    /\ \E o \in switch_mode(World, "auto") : SetWorld(o.w)
    /\ UNCHANGED <<planVars, executable, completed_steps, results, original_mode, step,
                   response, chatted, skipped, restores>>

\* errors = plan.validate(); if errors: return
StartInvalid ==
    /\ pc = "idle"
    /\ validate(plan) # <<>>
    /\ errors' = validate(plan)
    /\ ret' = [NoRet EXCEPT !.error = "invalid", !.errors = errors']
    /\ pc' = "returned"
    /\ UNCHANGED <<planVars, executable, mode, history, snapshots, stored, completed_steps,
                   results, original_mode, step, response, chatted, skipped,
                   restores>>

\* no errors: original_mode = session.mode; session.switch_mode(AUTO),
\* which runs before the try block
StartValid ==
    /\ pc = "idle"
    /\ validate(plan) = <<>>
    /\ errors' = <<>>
    /\ completed_steps' = {}
    /\ results' = <<>>
    /\ original_mode' = mode
    /\ \E o \in switch_mode(World, "auto") :
          /\ SetWorld(o.w)
          /\ pc' = IF o.raised THEN "raised" ELSE "loop"
    /\ UNCHANGED <<planVars, executable, step, response, ret, chatted, skipped, restores>>

\* the while condition is false: return success
LoopDone ==
    /\ pc = "loop"
    /\ ~(Cardinality(completed_steps) < Len(plan))
    /\ Finally(World, [NoRet EXCEPT !.success = TRUE, !.error = "",
                        !.completed_steps = completed_steps,
                        !.results = results], FALSE)
    /\ UNCHANGED <<planVars, executable, errors, completed_steps, results, original_mode,
                   step, response, chatted, skipped>>

\* "if not executable": the deadlock return
LoopDeadlock ==
    /\ pc = "loop"
    /\ Cardinality(completed_steps) < Len(plan)
    /\ executable' = get_executable_steps(plan, completed_steps)
    /\ executable' = <<>>
    /\ Finally(World, [NoRet EXCEPT !.error = "deadlock",
                        !.completed_steps = completed_steps,
                        !.results = results], FALSE)
    /\ UNCHANGED <<planVars, errors, completed_steps, results, original_mode,
                   step, response, chatted, skipped>>

\* step = executable[0]
LoopSelect ==
    /\ pc = "loop"
    /\ Cardinality(completed_steps) < Len(plan)
    /\ executable' = get_executable_steps(plan, completed_steps)
    /\ executable' # <<>>
    /\ step' = executable'[1]
    /\ pc' = IF interactive THEN "approve" ELSE "chat"
    /\ UNCHANGED <<planVars, mode, history, snapshots, stored, errors,
                   completed_steps, results, original_mode, response, ret,
                   chatted, skipped, restores>>

\* the approval callback (or input()) raises
ApproveRaise ==
    /\ pc = "approve"
    /\ Finally(World, ret, TRUE)
    /\ UNCHANGED <<planVars, executable, errors, completed_steps, results, original_mode,
                   step, response, chatted, skipped>>

\* response = approval_callback(step).lower()
ApproveAnswer ==
    /\ pc = "approve"
    /\ \E a \in Answers : response' = lower(a)
    /\ pc' = "answered"
    /\ UNCHANGED <<planVars, executable, mode, history, snapshots, stored, errors,
                   completed_steps, results, original_mode, step, ret, chatted,
                   skipped, restores>>

\* response == 'n': break, then the return after the loop
ApproveBreak ==
    /\ pc = "answered"
    /\ response = "n"
    /\ Finally(World, [NoRet EXCEPT !.success = TRUE, !.error = "",
                        !.completed_steps = completed_steps,
                        !.results = results], FALSE)
    /\ UNCHANGED <<planVars, executable, errors, completed_steps, results, original_mode,
                   step, response, chatted, skipped>>

ApproveSkip_records ==
    /\ pc = "answered"
    /\ response = "skip"
    /\ completed_steps' = completed_steps \cup {plan[step].id}
    /\ results' = (plan[step].id :> [response |-> ""]) @@ results
    /\ skipped' = skipped \cup {plan[step].id}
    /\ pc' = "loop"
    /\ UNCHANGED <<planVars, executable, mode, history, snapshots, stored, errors,
                   original_mode, step, response, ret, chatted, restores>>

\* response == 'skip': completed_steps.add(step.id); continue
ApproveSkip ==
    /\ pc = "answered"
    /\ response = "skip"
    /\ completed_steps' = completed_steps \cup {plan[step].id}
    /\ skipped' = skipped \cup {plan[step].id}
    /\ pc' = "loop"
    /\ UNCHANGED <<planVars, executable, mode, history, snapshots, stored, errors, results,
                   original_mode, step, response, ret, chatted, restores>>

ApproveRun_on_n ==
    /\ pc = "answered"
    /\ response \notin {"decline", "skip"}
    /\ pc' = "chat"
    /\ UNCHANGED <<planVars, executable, mode, history, snapshots, stored, errors,
                   completed_steps, results, original_mode, step, response, ret,
                   chatted, skipped, restores>>

\* any other answer: fall through to the execution of the step
ApproveRun ==
    /\ pc = "answered"
    /\ response \notin {"n", "skip"}
    /\ pc' = "chat"
    /\ UNCHANGED <<planVars, executable, mode, history, snapshots, stored, errors,
                   completed_steps, results, original_mode, step, response, ret,
                   chatted, skipped, restores>>

\* response = session.chat(instruction) returns: record result, mark completed
ChatReturn ==
    /\ pc = "chat"
    /\ \E o \in chat(World, step_to_instruction(step)) :
          /\ ~o.raised
          /\ SetWorld(o.w)
          /\ response' = o.response
          /\ results' = (plan[step].id :> [response |-> o.response]) @@ results
    /\ completed_steps' = completed_steps \cup {plan[step].id}
    /\ chatted' = Append(chatted, step)
    /\ pc' = "loop"
    /\ UNCHANGED <<planVars, executable, errors, original_mode, step, ret, skipped, restores>>

\* session.chat raises: the finally block runs and the exception propagates
ChatRaise ==
    /\ pc = "chat"
    /\ \E o \in chat(World, step_to_instruction(step)) :
          /\ o.raised
          /\ Finally(o.w, ret, TRUE)
    /\ chatted' = Append(chatted, step)
    /\ UNCHANGED <<planVars, executable, errors, completed_steps, results, original_mode,
                   step, response, skipped>>

Next ==
    \/ StartInvalid
    \/ StartValid
    \/ LoopDone
    \/ LoopDeadlock
    \/ LoopSelect
    \/ ApproveRaise
    \/ ApproveAnswer
    \/ ApproveBreak
    \/ ApproveSkip
    \/ ApproveRun
    \/ ChatReturn
    \/ ChatRaise

Spec == Init /\ [][Next]_vars

----------------------------------------------------------------------------
(* Plan.validate and Plan.get_executable_steps on their own *)

InitPlan ==
    /\ plan \in PlanInputs
    /\ pc = "plan"
    /\ errors = <<>>
    /\ completed_steps = {}
    /\ executable = <<>>
    /\ interactive = FALSE
    /\ auto_persist = FALSE
    /\ mode = "manual"
    /\ mode0 = "manual"
    /\ history = <<>>
    /\ snapshots = <<>>
    /\ stored = NoRecord
    /\ results = <<>>
    /\ original_mode = "manual"
    /\ step = 0
    /\ response = ""
    /\ ret = NoRet
    /\ chatted = <<>>
    /\ skipped = {}
    /\ restores = 0
    /\ StoreIdle

\* errors = plan.validate()
PlanValidate ==
    /\ pc = "plan"
    /\ errors' = validate(plan)
    /\ pc' = "validated"
    /\ UNCHANGED <<planVars, sessionVars, completed_steps, results,
                   original_mode, executable, step, response, ret, chatted,
                   skipped, restores>>

\* executable = plan.get_executable_steps(completed), then the caller adds
\* the returned steps to completed
PlanAdvance ==
    /\ pc \in {"validated", "scheduling"}
    /\ executable' = get_executable_steps(plan, completed_steps)
    /\ executable' # <<>>
    /\ completed_steps' =
          completed_steps \cup {plan[executable'[k]].id : k \in DOMAIN executable'}
    /\ pc' = "scheduling"
    /\ UNCHANGED <<planVars, sessionVars, errors, results, original_mode, step,
                   response, ret, chatted, skipped, restores>>

\* executable = plan.get_executable_steps(completed) is empty: the caller's
\* loop ends
PlanExhausted ==
    /\ pc \in {"validated", "scheduling"}
    /\ executable' = get_executable_steps(plan, completed_steps)
    /\ executable' = <<>>
    /\ pc' = "exhausted"
    /\ UNCHANGED <<planVars, sessionVars, errors, completed_steps, results,
                   original_mode, step, response, ret, chatted, skipped,
                   restores>>

NextPlan ==
    \/ PlanValidate
    \/ PlanAdvance
    \/ PlanExhausted

SpecPlan == InitPlan /\ [][NextPlan]_vars

----------------------------------------------------------------------------
(* Plan.get_executable_steps called once with any completed set *)

InitQuery ==
    /\ plan \in Plans
    /\ completed_steps \in SUBSET Ids
    /\ pc = "query"
    /\ errors = <<>>
    /\ executable = <<>>
    /\ interactive = FALSE
    /\ auto_persist = FALSE
    /\ mode = "manual"
    /\ mode0 = "manual"
    /\ history = <<>>
    /\ snapshots = <<>>
    /\ stored = NoRecord
    /\ results = <<>>
    /\ original_mode = "manual"
    /\ step = 0
    /\ response = ""
    /\ ret = NoRet
    /\ chatted = <<>>
    /\ skipped = {}
    /\ restores = 0
    /\ StoreIdle

\* executable = plan.get_executable_steps(completed)
PlanQuery ==
    /\ pc = "query"
    /\ executable' = get_executable_steps(plan, completed_steps)
    /\ pc' = "queried"
    /\ UNCHANGED <<planVars, sessionVars, errors, completed_steps, results,
                   original_mode, step, response, ret, chatted, skipped,
                   restores>>

NextQuery == PlanQuery

SpecQuery == InitQuery /\ [][NextQuery]_vars

----------------------------------------------------------------------------
(* A ResumeSession driven directly: chat and switch_mode *)

\* how the worker layer of one chat ends: the agent framework answers or
\* raises, or its import fails and the direct completion call answers or fails
Workers == {"supervisor_ok", "supervisor_raises", "fallback_ok", "fallback_error"}

\* the string _fallback_processing returns from its except clause
ErrorResponse == "Error"

\* the record another session left in the custom directory
OtherRecord ==
    LET r == session_record(Session("s2", "manual", <<>>, InitData, <<>>, TRUE))
    IN [pkl |-> Full(r), json |-> Full(r)]

execVars == <<plan, interactive, mode0, stored, pc, errors, completed_steps,
              results, original_mode, executable, step, response, ret,
              chatted, skipped, restores>>

\* what chat, switch_mode and the store calls other than store[id] = session
\* and iteration leave alone
engineVars == <<execVars, session_id, listed, callVars>>

\* no plan is executed
EngineIdle ==
    /\ plan = <<>>
    /\ interactive = FALSE
    /\ mode0 = mode
    /\ stored = NoRecord
    /\ errors = <<>>
    /\ completed_steps = {}
    /\ results = <<>>
    /\ original_mode = mode
    /\ executable = <<>>
    /\ step = 0
    /\ response = ""
    /\ ret = NoRet
    /\ chatted = <<>>
    /\ skipped = {}
    /\ restores = 0
    /\ session_id = LiveId
    /\ listed = <<>>
    /\ CallIdle

\* the call just made: its arguments, whether it raised, what it returned,
\* and whether files[dir][id] held a file when it was made
Called(op, raised, value, worker, dir, id) ==
    [op |-> op, raised |-> raised, value |-> value, worker |-> worker,
     dir |-> dir, id |-> id,
     existed |-> IF dir = "" THEN FALSE ELSE files[dir][id] # NoRecord]

chat_begin_snapshot_first(x) ==
    LET h == Append(x.history, Turn("user", "msg"))
    IN [x EXCEPT !.history = h,
                 !.snapshots = Append(@, [turn_count |-> Len(x.history),
                                          data |-> snapshot(x.state),
                                          mode |-> x.mode])]

\* chat, up to the call of the worker layer: the user Turn, then the snapshot
chat_begin(x) ==
    LET h == Append(x.history, Turn("user", "msg"))
    IN [x EXCEPT !.history = h,
                 !.snapshots = Append(@, [turn_count |-> Len(h),
                                          data |-> snapshot(x.state),
                                          mode |-> x.mode])]

\* _process_with_supervisor: only the ImportError of the agent framework is
\* caught; the tools of the agent store W; _fallback_processing catches all
process_with_supervisor(x, worker, W) ==
    [session |-> [x EXCEPT !.state = tool_writes(@, W)],
     raised |-> worker = "supervisor_raises",
     response |-> IF worker = "fallback_error" THEN ErrorResponse
                  ELSE IF worker = "supervisor_raises" THEN ""
                  ELSE ChatResponse]

\* chat, after the worker layer returned: the assistant Turn
chat_end(x, resp) == [x EXCEPT !.history = Append(@, Turn("assistant", resp))]

SetLive(x) ==
    /\ mode' = x.mode
    /\ history' = x.history
    /\ state' = x.state
    /\ snapshots' = x.snapshots

InitSession ==
    /\ pc = "session"
    /\ auto_persist \in BOOLEAN
    /\ mode \in Modes
    /\ data_dir \in Dirs
    /\ state = InitData
    /\ history = <<>>
    /\ snapshots = <<>>
    /\ files \in {NoFiles, [NoFiles EXCEPT !["custom"]["s2"] = OtherRecord]}
    /\ loaded = NoSession
    /\ outcome = NoOutcome
    /\ EngineIdle

\* session.chat(user_message)
SessionChat ==
    /\ pc = "session"
    /\ Len(history) + 2 <= MaxTurns
    /\ \E worker \in Workers, W \in SUBSET ToolWrites :
        /\ worker \in {"fallback_ok", "fallback_error"} => W = {}
        /\ LET r == process_with_supervisor(chat_begin(Live), worker, W)
               x == chat_end(r.session, r.response)
           IN IF r.raised
              THEN /\ SetLive(r.session)
                   /\ files' = files
                   /\ outcome' = Called("chat", TRUE, "", worker, "", "")
              ELSE /\ SetLive(x)
                   /\ \E o \in session_auto_save(files, x, data_dir) :
                         /\ files' = o.files
                         /\ outcome' = Called("chat", o.raised,
                                              IF o.raised THEN "" ELSE r.response,
                                              worker, "", "")
    /\ UNCHANGED <<engineVars, auto_persist, data_dir, loaded>>

SessionSwitchMode_silent ==
    /\ pc = "session"
    /\ Len(history) + 1 <= MaxTurns
    /\ \E m \in Modes :
        LET x == [Live EXCEPT !.mode = m]
        IN /\ SetLive(x)
           /\ \E o \in session_auto_save(files, x, data_dir) :
                 /\ files' = o.files
                 /\ outcome' = Called("switch_mode", o.raised, m, "", "", "")
    /\ UNCHANGED <<engineVars, auto_persist, data_dir, loaded>>

\* session.switch_mode(m)
SessionSwitchMode ==
    /\ pc = "session"
    /\ Len(history) + 1 <= MaxTurns
    /\ \E m \in Modes :
        LET x == [Live EXCEPT !.mode = m,
                              !.history = Append(@, Turn("system", m))]
        IN /\ SetLive(x)
           /\ \E o \in session_auto_save(files, x, data_dir) :
                 /\ files' = o.files
                 /\ outcome' = Called("switch_mode", o.raised, m, "", "", "")
    /\ UNCHANGED <<engineVars, auto_persist, data_dir, loaded>>

NextSession ==
    \/ SessionChat
    \/ SessionSwitchMode

SpecSession == InitSession /\ [][NextSession]_vars

----------------------------------------------------------------------------
(* SessionStore calls on the directory data_dir, the live session at rest *)

Fresh(m) == Session(LiveId, m, <<>>, InitData, <<>>, FALSE)

\* the sessions saved: a new one, or one after a chat that returned
StoreSessions ==
    {Fresh(m) : m \in Modes}
    \cup {chat_end(process_with_supervisor(chat_begin(Fresh(m)), "supervisor_ok", W).session,
                   ChatResponse) : m \in Modes, W \in SUBSET ToolWrites}

InitStore ==
    /\ pc = "store"
    /\ auto_persist = FALSE
    /\ data_dir \in Dirs
    /\ \E x \in StoreSessions :
          /\ mode = x.mode
          /\ history = x.history
          /\ state = x.state
          /\ snapshots = x.snapshots
    /\ \E old \in {NoRecord,
                  [pkl |-> Full(session_record(Fresh("manual"))),
                   json |-> Full(session_record(Fresh("manual")))]} :
          files \in {[NoFiles EXCEPT ![data_dir]["s1"] = old],
                     [NoFiles EXCEPT ![data_dir]["s1"] = old,
                                     ![data_dir]["s2"] = OtherRecord]}
    /\ loaded = NoSession
    /\ outcome = NoOutcome
    /\ EngineIdle

liveVars == <<auto_persist, mode, history, snapshots, data_dir, state>>

\* store.save_session(session)
StoreSave ==
    /\ pc = "store"
    /\ \E o \in store_save(files, data_dir, Live) :
          /\ files' = o.files
          /\ outcome' = Called("save", o.raised, "", "", data_dir, session_id)
    /\ UNCHANGED <<engineVars, liveVars, loaded>>

\* store.load_session(id)
StoreLoad ==
    /\ pc = "store"
    /\ \E id \in SessionIds :
        LET r == load_session(files[data_dir][id])
        IN /\ loaded' = r.session
           /\ outcome' = Called("load", r.raised,
                                IF r.session = NoSession THEN "None" ELSE "session",
                                "", data_dir, id)
    /\ UNCHANGED <<engineVars, liveVars, files>>

\* store.save_session(loaded), loaded being the session load_session returned
StoreSaveLoaded ==
    /\ pc = "store"
    /\ loaded # NoSession
    /\ \E o \in store_save(files, data_dir, loaded) :
          /\ files' = o.files
          /\ outcome' = Called("save_loaded", o.raised, "", "", data_dir,
                               loaded.session_id)
    /\ UNCHANGED <<engineVars, liveVars, loaded>>

\* store.delete_session(id)
StoreDelete ==
    /\ pc = "store"
    /\ \E id \in SessionIds :
        LET r == delete_session(files, data_dir, id)
        IN /\ files' = r.files
           /\ outcome' = Called("delete_session", FALSE,
                                IF r.deleted THEN "True" ELSE "False",
                                "", data_dir, id)
    /\ UNCHANGED <<engineVars, liveVars, loaded>>

\* del store[id]: KeyError when delete_session deleted nothing
StoreDelItem ==
    /\ pc = "store"
    /\ \E id \in SessionIds :
        LET r == delete_session(files, data_dir, id)
        IN /\ files' = r.files
           /\ outcome' = Called("delitem", ~r.deleted, "", "", data_dir, id)
    /\ UNCHANGED <<engineVars, liveVars, loaded>>

StoreSetItem_renames_caller ==
    /\ pc = "store"
    /\ \E id \in SessionIds :
        \E o \in store_save(files, data_dir, setitem_session(Live, id)) :
          /\ files' = o.files
          /\ outcome' = Called("setitem", o.raised, "", "", data_dir, id)
          /\ session_id' = id
    /\ UNCHANGED <<execVars, liveVars, loaded, listed, callVars>>

\* store[id] = session
StoreSetItem ==
    /\ pc = "store"
    /\ \E id \in SessionIds :
        \E o \in store_save(files, data_dir, setitem_session(Live, id)) :
          /\ files' = o.files
          /\ outcome' = Called("setitem", o.raised, "", "", data_dir, id)
          /\ session_id' = session_id
    /\ UNCHANGED <<execVars, liveVars, loaded, listed, callVars>>

\* list(store), len(store)
StoreIter ==
    /\ pc = "store"
    /\ listed' = store_iter(files[data_dir])
    /\ outcome' = Called("iter", FALSE, "", "", "", "")
    /\ UNCHANGED <<execVars, liveVars, loaded, files, session_id, callVars>>

\* id in store
StoreContains ==
    /\ pc = "store"
    /\ \E id \in SessionIds :
        LET r == store_contains(files[data_dir][id])
        IN outcome' = Called("contains", r.raised,
                             IF r.raised THEN "" ELSE IF r.value THEN "True" ELSE "False",
                             "", data_dir, id)
    /\ UNCHANGED <<engineVars, liveVars, loaded, files>>

\* store.get(id, default)
StoreGet ==
    /\ pc = "store"
    /\ \E id \in SessionIds :
        LET r == store_get(files[data_dir][id])
        IN outcome' = Called("get", r.raised, IF r.raised THEN "" ELSE r.value,
                             "", data_dir, id)
    /\ UNCHANGED <<engineVars, liveVars, loaded, files>>

NextStore ==
    \/ StoreSave
    \/ StoreLoad
    \/ StoreSaveLoaded
    \/ StoreDelete
    \/ StoreDelItem

SpecStore == InitStore /\ [][NextStore]_vars

----------------------------------------------------------------------------
(* A session returned by load_session, driven after the load *)

InitLoaded ==
    /\ pc = "store"
    /\ auto_persist \in BOOLEAN
    /\ data_dir \in Dirs
    /\ \E m \in Modes :
          /\ mode = m
          /\ history = <<>>
          /\ state = InitData
          /\ snapshots = <<>>
    /\ files = NoFiles
    /\ loaded = NoSession
    /\ outcome = NoOutcome
    /\ EngineIdle

\* loaded.chat(user_message), loaded being the session load_session returned
LoadedChat ==
    /\ pc = "store"
    /\ loaded # NoSession
    /\ Len(loaded.history) + 2 <= MaxTurns
    /\ \E worker \in Workers, W \in SUBSET ToolWrites :
        /\ worker \in {"fallback_ok", "fallback_error"} => W = {}
        /\ LET r == process_with_supervisor(chat_begin(loaded), worker, W)
               x == chat_end(r.session, r.response)
           IN IF r.raised
              THEN /\ loaded' = r.session
                   /\ files' = files
                   /\ outcome' = Called("loaded_chat", TRUE, "", worker, "", "")
              ELSE /\ loaded' = x
                   /\ \E o \in session_auto_save(files, x, "default") :
                         /\ files' = o.files
                         /\ outcome' = Called("loaded_chat", o.raised,
                                              IF o.raised THEN "" ELSE r.response,
                                              worker, "", "")
    /\ UNCHANGED <<engineVars, liveVars>>

\* loaded.switch_mode(m)
LoadedSwitchMode ==
    /\ pc = "store"
    /\ loaded # NoSession
    /\ Len(loaded.history) + 1 <= MaxTurns
    /\ \E m \in Modes :
        LET x == [loaded EXCEPT !.mode = m,
                                !.history = Append(@, Turn("system", m))]
        IN /\ loaded' = x
           /\ \E o \in session_auto_save(files, x, "default") :
                 /\ files' = o.files
                 /\ outcome' = Called("loaded_switch_mode", o.raised, m, "", "", "")
    /\ UNCHANGED <<engineVars, liveVars>>

NextLoaded ==
    \/ StoreSave
    \/ StoreLoad
    \/ LoadedChat
    \/ LoadedSwitchMode

SpecLoaded == InitLoaded /\ [][NextLoaded]_vars

----------------------------------------------------------------------------
(* The mapping facade of a SessionStore on the directory data_dir *)

InitFacade ==
    /\ pc = "store"
    /\ auto_persist = FALSE
    /\ data_dir \in Dirs
    /\ \E m \in Modes :
          /\ mode = m
          /\ history = <<>>
          /\ state = InitData
          /\ snapshots = <<>>
    /\ files = NoFiles
    /\ loaded = NoSession
    /\ outcome = NoOutcome
    /\ EngineIdle

NextFacade ==
    \/ StoreSave
    \/ StoreDelete
    \/ StoreDelItem
    \/ StoreSetItem
    \/ StoreIter
    \/ StoreContains
    \/ StoreGet

SpecFacade == InitFacade /\ [][NextFacade]_vars

----------------------------------------------------------------------------
(* Two users of one directory: one inside save_session or delete_session of *)
(* the live session's id, file operation by file operation, the other       *)
(* loading and listing in between                                           *)

InitRace ==
    /\ pc = "race"
    /\ auto_persist = FALSE
    /\ data_dir \in Dirs
    /\ \E m \in Modes :
          /\ mode = m
          /\ history = <<>>
          /\ state = InitData
          /\ snapshots = <<>>
    /\ files \in {NoFiles,
                  [NoFiles EXCEPT ![data_dir][LiveId] =
                      [pkl |-> Full(session_record(Fresh("manual"))),
                       json |-> Full(session_record(Fresh("manual")))]]}
    /\ loaded = NoSession
    /\ outcome = NoOutcome
    /\ EngineIdle

\* what neither user writes
raceRest == <<plan, interactive, mode0, stored, errors, completed_steps, results,
              original_mode, executable, step, response, ret, chatted, skipped,
              restores, liveVars, session_id, callVars>>

\* save_session: open(session_file, 'wb')
RaceSaveOpenPickle ==
    /\ pc = "race"
    /\ pc' = "save_pkl"
    /\ files' = [files EXCEPT ![data_dir][session_id].pkl = Partial]
    /\ UNCHANGED <<loaded, listed, outcome, raceRest>>

\* save_session: pickle.dump(session_data, f) and the file closed
RaceSaveDumpPickle ==
    /\ pc = "save_pkl"
    /\ pc' = "save_between"
    /\ files' = [files EXCEPT ![data_dir][session_id].pkl = Full(session_record(Live))]
    /\ UNCHANGED <<loaded, listed, outcome, raceRest>>

\* save_session: open(json_file, 'w')
RaceSaveOpenJson ==
    /\ pc = "save_between"
    /\ pc' = "save_json"
    /\ files' = [files EXCEPT ![data_dir][session_id].json = Partial]
    /\ UNCHANGED <<loaded, listed, outcome, raceRest>>

\* save_session: json.dump(session_data, f, ...) and the file closed
RaceSaveDumpJson ==
    /\ pc = "save_json"
    /\ pc' = "race"
    /\ files' = [files EXCEPT ![data_dir][session_id].json = Full(session_record(Live))]
    /\ UNCHANGED <<loaded, listed, outcome, raceRest>>

\* delete_session: pkl_file.unlink() when it exists
RaceDeleteUnlinkPickle ==
    /\ pc = "race"
    /\ pc' = "delete_between"
    /\ files' = [files EXCEPT ![data_dir][session_id].pkl = NoFile]
    /\ UNCHANGED <<loaded, listed, outcome, raceRest>>

\* delete_session: json_file.unlink() when it exists
RaceDeleteUnlinkJson ==
    /\ pc = "delete_between"
    /\ pc' = "race"
    /\ files' = [files EXCEPT ![data_dir][session_id].json = NoFile]
    /\ UNCHANGED <<loaded, listed, outcome, raceRest>>

\* the other user: store.load_session(id)
RaceLoad ==
    /\ pc \in {"race", "save_pkl", "save_between", "save_json", "delete_between"}
    /\ LET r == load_session(files[data_dir][session_id])
       IN /\ loaded' = r.session
          /\ outcome' = Called("load", r.raised,
                               IF r.session = NoSession THEN "None" ELSE "session",
                               "", data_dir, session_id)
    /\ UNCHANGED <<pc, files, listed, raceRest>>

\* the other user: list(store.list_sessions())
RaceList ==
    /\ pc \in {"race", "save_pkl", "save_between", "save_json", "delete_between"}
    /\ listed' = store_iter(files[data_dir])
    /\ outcome' = Called("list_sessions", FALSE, "", "", data_dir, session_id)
    /\ UNCHANGED <<pc, files, loaded, raceRest>>

NextRace ==
    \/ RaceSaveOpenPickle
    \/ RaceSaveDumpPickle
    \/ RaceSaveOpenJson
    \/ RaceSaveDumpJson
    \/ RaceDeleteUnlinkPickle
    \/ RaceDeleteUnlinkJson
    \/ RaceLoad
    \/ RaceList

SpecRace == InitRace /\ [][NextRace]_vars

----------------------------------------------------------------------------
(* ConversationMemory on its own *)

\* ConversationMemory.get_recent_turns: "n = n or self._max_recent_turns",
\* None and 0 being falsy, then turns[-n:], where -0 is 0 and turns[0:] is the
\* whole list
get_recent_turns(turns, max, a) ==
    LET n == IF a.given /\ a.n # 0 THEN a.n ELSE max
    IN IF n = 0 \/ n >= Len(turns) THEN turns
       ELSE SubSeq(turns, Len(turns) - n + 1, Len(turns))

\* ConversationMemory.get_all_turns
get_all_turns(turns) == turns

InitMemory ==
    /\ pc = "memory"
    /\ auto_persist = FALSE
    /\ data_dir = "default"
    /\ mode = "manual"
    /\ history = <<>>
    /\ state = InitData
    /\ snapshots = <<>>
    /\ files = NoFiles
    /\ loaded = NoSession
    /\ outcome = NoOutcome
    /\ plan = <<>>
    /\ interactive = FALSE
    /\ mode0 = mode
    /\ stored = NoRecord
    /\ errors = <<>>
    /\ completed_steps = {}
    /\ results = <<>>
    /\ original_mode = mode
    /\ executable = <<>>
    /\ step = 0
    /\ response = ""
    /\ ret = NoRet
    /\ chatted = <<>>
    /\ skipped = {}
    /\ restores = 0
    /\ session_id = LiveId
    /\ listed = <<>>
    /\ max_recent_turns \in 1..MaxTurns
    /\ arg = <<>>
    /\ result = <<>>
    /\ heap = <<>>

\* what the calls on a ConversationMemory leave alone
memoryRest == <<plan, interactive, mode0, stored, pc, errors, completed_steps,
                results, original_mode, executable, step, response, ret,
                chatted, skipped, restores, auto_persist, mode, snapshots,
                data_dir, state, files, loaded, session_id, listed,
                max_recent_turns, heap>>

\* memory.add_turn(role, content)
MemoryAddTurn ==
    /\ pc = "memory"
    /\ Len(history) < MaxTurns
    /\ \E r \in {"user", "assistant"}, c \in {"a", "b"} :
          history' = Append(history, Turn(r, c))
    /\ outcome' = Called("add_turn", FALSE, "", "", "", "")
    /\ UNCHANGED <<arg, result, memoryRest>>

\* memory.get_recent_turns(n), memory.get_recent_turns()
MemoryGetRecent ==
    /\ pc = "memory"
    /\ \E a \in {[given |-> TRUE, n |-> k] : k \in 0..(MaxTurns + 1)}
               \cup {[given |-> FALSE, n |-> 0]} :
          /\ arg' = a
          /\ result' = get_recent_turns(history, max_recent_turns, a)
    /\ outcome' = Called("get_recent_turns", FALSE, "", "", "", "")
    /\ UNCHANGED <<history, memoryRest>>

\* memory.get_all_turns()
MemoryGetAll ==
    /\ pc = "memory"
    /\ arg' = <<>>
    /\ result' = get_all_turns(history)
    /\ outcome' = Called("get_all_turns", FALSE, "", "", "", "")
    /\ UNCHANGED <<history, memoryRest>>

NextMemory ==
    \/ MemoryAddTurn
    \/ MemoryGetRecent
    \/ MemoryGetAll

SpecMemory == InitMemory /\ [][NextMemory]_vars

----------------------------------------------------------------------------
(* SessionState on its own, its dicts as objects: heap[a] is the dict at     *)
(* address a, and state is the address of SessionState._data                *)

\* a str, a reference to a dict object, a dict the caller passes in, and
\* what a dict holds under a key it does not have
Str(t) == [str |-> t]
Ref(a) == [ref |-> a]
Dict(f) == [dict |-> f]
Absent == [absent |-> TRUE]
IsRef(v) == "ref" \in DOMAIN v
IsDict(v) == "dict" \in DOMAIN v

StateKeys == {"drafts", "notes"}
AllKeys == StateKeys \cup {"resume"}
Texts == {"v1", "v2"}

\* {}
EmptyDict == [k \in AllKeys |-> Absent]

\* the values a caller passes: two strs, {} and {'resume': text}
CallerValues ==
    {Str(""), Str("v1"), Dict(EmptyDict)}
    \cup {Dict([EmptyDict EXCEPT !["resume"] = Str(t)]) : t \in Texts}

\* updates of one key and of two
Updates ==
    {<<<<k, v>>>> : k \in StateKeys, v \in CallerValues}
    \cup {<<<<"drafts", v>>, <<"notes", Str("v1")>>>> : v \in CallerValues}

\* the address a new object gets
alloc(h) ==
    CHOOSE a \in 1..MaxAddr :
        /\ a \notin DOMAIN h
        /\ \A b \in 1..MaxAddr : b \notin DOMAIN h => a <= b

\* the heap with one more object
new_object(h, o) ==
    [a \in DOMAIN h \cup {alloc(h)} |-> IF a = alloc(h) THEN o ELSE h[a]]

\* the keys of the dict at a that hold a dict
dict_keys(h, a) == {k \in AllKeys : IsRef(h[a][k])}

\* the objects that can still be reached are kept, the others are freed
collect(h, roots) ==
    [a \in roots \cup UNION {{h[r][k].ref : k \in dict_keys(h, r)} : r \in roots} |-> h[a]]

\* d[key] = v on the dict at address a
set_item(h, a, key, v) == [h EXCEPT ![a][key] = v]

\* dict.update(new) on the dict old
dict_update(old, new) ==
    [k \in AllKeys |-> IF new[k] # Absent THEN new[k] ELSE old[k]]

\* the value as stored by reference: the caller's dict is one more object
store_value(h, a, key, v) ==
    IF IsDict(v)
    THEN set_item(new_object(h, v.dict), a, key, Ref(alloc(h)))
    ELSE set_item(h, a, key, v)

\* one round of the loop of SessionState.update; dict.update(str) raises
\* ValueError unless the str is empty
update_item(h, a, key, v) ==
    IF IsRef(h[a][key])
    THEN IF IsDict(v)
         THEN [heap |-> [h EXCEPT ![h[a][key].ref] = dict_update(@, v.dict)],
               raised |-> FALSE]
         ELSE [heap |-> h, raised |-> v.str # ""]
    ELSE [heap |-> store_value(h, a, key, v), raised |-> FALSE]

RECURSIVE update(_, _, _)
\* SessionState.update(updates), updates.items() in order
update(h, a, ups) ==
    IF ups = <<>> THEN [heap |-> h, raised |-> FALSE]
    ELSE LET r == update_item(h, a, Head(ups)[1], Head(ups)[2])
         IN IF r.raised THEN r ELSE update(r.heap, a, Tail(ups))

RECURSIVE copy_dicts(_, _, _)
\* json.loads of the dumped dicts under the keys ks: every one a new object
copy_dicts(h, a, ks) ==
    IF ks = {} THEN [heap |-> h, at |-> [k \in AllKeys |-> 0]]
    ELSE LET k == CHOOSE x \in ks : TRUE
             r == copy_dicts(h, a, ks \ {k})
         IN [heap |-> new_object(r.heap, h[h[a][k].ref]),
             at |-> [r.at EXCEPT ![k] = alloc(r.heap)]]

snapshot_objects_shallow(h, a) ==
    [heap |-> new_object(h, h[a]), root |-> alloc(h)]

\* SessionState.snapshot: json.loads(json.dumps(self._data)) builds new dicts
\* all the way down
snapshot_objects(h, a) ==
    LET r == copy_dicts(h, a, dict_keys(h, a))
    IN [heap |-> new_object(r.heap, [k \in AllKeys |->
                                        IF IsRef(h[a][k]) THEN Ref(r.at[k]) ELSE h[a][k]]),
        root |-> alloc(r.heap)]

InitState ==
    /\ pc = "state"
    /\ auto_persist = FALSE
    /\ data_dir = "default"
    /\ mode = "manual"
    /\ history = <<>>
    /\ state = 1
    /\ heap = <<[EmptyDict EXCEPT !["drafts"] = Ref(2)], EmptyDict>>
    /\ snapshots = <<>>
    /\ files = NoFiles
    /\ loaded = NoSession
    /\ outcome = NoOutcome
    /\ plan = <<>>
    /\ interactive = FALSE
    /\ mode0 = mode
    /\ stored = NoRecord
    /\ errors = <<>>
    /\ completed_steps = {}
    /\ results = <<>>
    /\ original_mode = mode
    /\ executable = <<>>
    /\ step = 0
    /\ response = ""
    /\ ret = NoRet
    /\ chatted = <<>>
    /\ skipped = {}
    /\ restores = 0
    /\ session_id = LiveId
    /\ listed = <<>>
    /\ max_recent_turns = 10
    /\ arg = <<>>
    /\ result = <<>>

\* what the calls on a SessionState leave alone
stateRest == <<plan, interactive, mode0, stored, pc, errors, completed_steps,
               results, original_mode, executable, step, response, ret,
               chatted, skipped, restores, auto_persist, mode, history,
               data_dir, state, files, loaded, session_id, listed,
               max_recent_turns, result>>

\* state.update(updates)
StateUpdate ==
    /\ pc = "state"
    /\ \E ups \in {u \in Updates : \A i \in 1..Len(u) : u[i][1] \in {"drafts"}} :
          /\ Cardinality((1..MaxAddr) \ DOMAIN heap) >= Len(ups)
          /\ arg' = <<>>
          /\ heap' = collect(update(heap, state, ups).heap, {state} \cup {snapshots[i] : i \in 1..Len(snapshots)})
          /\ outcome' = Called("update", update(heap, state, ups).raised, "", "", "", "")
    /\ UNCHANGED <<snapshots, stateRest>>

\* state[key] = value
StateSetItem ==
    /\ pc = "state"
    /\ (1..MaxAddr) \ DOMAIN heap # {}
    /\ \E key \in {"drafts"}, v \in CallerValues :
          /\ arg' = <<>>
          /\ heap' = collect(store_value(heap, state, key, v), {state} \cup {snapshots[i] : i \in 1..Len(snapshots)})
    /\ outcome' = Called("setitem", FALSE, "", "", "", "")
    /\ UNCHANGED <<snapshots, stateRest>>

\* state[key][k] = text, state[key] being a dict
StateNestedSet ==
    /\ pc = "state"
    /\ \E key \in dict_keys(heap, state), k \in {"resume"}, t \in Texts :
          /\ arg' = <<>>
          /\ heap' = set_item(heap, heap[state][key].ref, k, Str(t))
    /\ outcome' = Called("nested_set", FALSE, "", "", "", "")
    /\ UNCHANGED <<snapshots, stateRest>>

\* a snapshot taken and kept: SessionSnapshot.data in _create_snapshot,
\* session_data['state'] in save_session
StateSnapshot ==
    /\ pc = "state"
    /\ Len(snapshots) < MaxSnapshots
    /\ Cardinality((1..MaxAddr) \ DOMAIN heap) >= Cardinality(dict_keys(heap, state)) + 1
    /\ heap' = snapshot_objects(heap, state).heap
    /\ snapshots' = Append(snapshots, snapshot_objects(heap, state).root)
    /\ arg' = <<>>
    /\ outcome' = Called("snapshot", FALSE, "", "", "", "")
    /\ UNCHANGED stateRest

\* the holder of a snapshot writes into it: snap[key][k] = text
SnapshotNestedSet ==
    /\ pc = "state"
    /\ \E i \in 1..Len(snapshots) :
        \E key \in dict_keys(heap, snapshots[i]), k \in {"resume"}, t \in Texts :
          /\ arg' = <<>>
          /\ heap' = set_item(heap, heap[snapshots[i]][key].ref, k, Str(t))
    /\ outcome' = Called("snapshot_nested_set", FALSE, "", "", "", "")
    /\ UNCHANGED <<snapshots, stateRest>>

NextState ==
    \/ StateUpdate
    \/ StateSetItem
    \/ StateNestedSet
    \/ StateSnapshot
    \/ SnapshotNestedSet

SpecState == InitState /\ [][NextState]_vars

----------------------------------------------------------------------------
(* One call of SessionState.update, for every state and argument *)

InitUpdate ==
    /\ pc = "update"
    /\ auto_persist = FALSE
    /\ data_dir = "default"
    /\ mode = "manual"
    /\ history = <<>>
    /\ state = 1
    /\ \E d, n \in {Absent, Str("v1")} \cup {v \in CallerValues : IsDict(v)} :
          LET h1 == IF d = Absent THEN <<EmptyDict>>
                    ELSE store_value(<<EmptyDict>>, 1, "drafts", d)
          IN heap = IF n = Absent THEN h1 ELSE store_value(h1, 1, "notes", n)
    /\ arg \in Updates
    /\ snapshots = <<>>
    /\ files = NoFiles
    /\ loaded = NoSession
    /\ outcome = NoOutcome
    /\ plan = <<>>
    /\ interactive = FALSE
    /\ mode0 = mode
    /\ stored = NoRecord
    /\ errors = <<>>
    /\ completed_steps = {}
    /\ results = <<>>
    /\ original_mode = mode
    /\ executable = <<>>
    /\ step = 0
    /\ response = ""
    /\ ret = NoRet
    /\ chatted = <<>>
    /\ skipped = {}
    /\ restores = 0
    /\ session_id = LiveId
    /\ listed = <<>>
    /\ max_recent_turns = 10
    /\ result = <<>>

\* state.update(arg)
UpdateApply ==
    /\ pc = "update"
    /\ pc' = "updated"
    /\ heap' = collect(update(heap, state, arg).heap, {state})
    /\ outcome' = Called("update", update(heap, state, arg).raised, "", "", "", "")
    /\ UNCHANGED <<plan, interactive, mode0, stored, errors, completed_steps,
                 results, original_mode, executable, step, response, ret,
                 chatted, skipped, restores, auto_persist, mode, history,
                 snapshots, data_dir, state, files, loaded, session_id, listed,
                 max_recent_turns, result, arg>>

SpecUpdate == InitUpdate /\ [][UpdateApply]_vars

----------------------------------------------------------------------------
(* Dependency relation among the steps of a plan, stated on step positions *)

Range(f) == {f[k] : k \in DOMAIN f}

\* step i lists the id of step j among its dependencies
DependsOn(p, i, j) == p[j].id \in p[i].dependencies

RECURSIVE ReachFrom(_, _)
ReachFrom(p, S) ==
    LET T == S \cup {j \in DOMAIN p : \E i \in S : DependsOn(p, i, j)}
    IN IF T = S THEN S ELSE ReachFrom(p, T)

\* a dependency path of length >= 1 leads from step i to step j
Reaches(p, i, j) == j \in ReachFrom(p, {k \in DOMAIN p : DependsOn(p, i, k)})

OnCycle(p, i) == Reaches(p, i, i)
\* step i lies on a dependency cycle through a step with another id
InLongCycle(p, i) ==
    \E j \in DOMAIN p : p[j].id # p[i].id /\ Reaches(p, i, j) /\ Reaches(p, j, i)
Dangling(p, i, d) == d \in p[i].dependencies /\ d \notin step_ids(p)
HasDangling(p) == \E i \in DOMAIN p : \E d \in Ids : Dangling(p, i, d)
UniqueIds(p) == \A i, j \in DOMAIN p : p[i].id = p[j].id => i = j

Terminal == {"returned", "raised"}

----------------------------------------------------------------------------
(* Claims *)

\* C1: whenever a step is handed to session.chat, every id in its
\* dependencies is already in completed_steps.
C1_DepsCompletedAtChat ==
    pc = "chat" => plan[step].dependencies \subseteq completed_steps

C1_Witness ==
    /\ pc = "chat"
    /\ plan[step].dependencies # {}
    /\ Len(plan) >= 2

\* C2 (as claimed): a non-interactive run of a plan that passed validate()
\* returns success with every step executed exactly once, completed_steps
\* holding all the steps and a results entry for each.
C2_NonInteractiveCompletesAll ==
    (pc = "returned" /\ ~interactive /\ errors = <<>>) =>
        /\ ret.success
        /\ ret.completed_steps = step_ids(plan)
        /\ DOMAIN ret.results = step_ids(plan)
        /\ Len(chatted) = Len(plan)
        /\ Range(chatted) = DOMAIN plan

\* C3 (as claimed): on every exit of a run on a validated plan the mode is the
\* one the session had before the call and it was restored exactly once.
C3_ModeRestoredOnce ==
    (pc \in Terminal /\ errors = <<>>) => (mode = mode0 /\ restores = 1)

\* C4: a plan with validation errors makes execute_plan return the failure
\* with that error list and no completed step, with no chat call, no mode
\* change and no Turn appended.
C4_InvalidPlanRefused ==
    (pc # "idle" /\ errors # <<>>) =>
        /\ pc = "returned"
        /\ ~ret.success
        /\ ret.errors = errors
        /\ ret.completed_steps = {}
        /\ chatted = <<>>
        /\ mode = mode0
        /\ restores = 0
        /\ history = <<>>
        /\ snapshots = <<>>
        /\ stored = NoRecord

C4_Witness ==
    /\ pc = "returned"
    /\ errors # <<>>
    /\ auto_persist
    /\ mode0 = "manual"
    /\ Len(plan) >= 2

C6_SkipCompletesWithoutRunning ==
    [][(pc = "answered" /\ response = "skip") =>
          /\ pc' = "loop"
          /\ completed_steps' = completed_steps \cup {plan[step].id}
          /\ chatted' = chatted
          /\ history' = history
          /\ results' = results
          /\ plan[step].id \notin DOMAIN results'
          /\ \A j \in DOMAIN plan :
                (/\ plan[step].id \in plan[j].dependencies
                 /\ plan[j].dependencies \subseteq completed_steps'
                 /\ plan[j].id \notin completed_steps')
                => j \in Range(get_executable_steps(plan, completed_steps'))]_vars

C6_Witness ==
    /\ pc = "chat"
    /\ plan[step].dependencies # {}
    /\ plan[step].dependencies \subseteq skipped
    /\ chatted = <<>>

\* C7 (as claimed): the deadlock failure is returned only by an interactive
\* run on a validated plan in which a step was skipped.
C7_DeadlockOnlyAfterSkip ==
    (pc = "returned" /\ ret.error = "deadlock") =>
        (errors = <<>> /\ interactive /\ skipped # {})

RECURSIVE Schedule(_, _)
\* the order in which a run that executes every chosen step goes through p
Schedule(p, done) ==
    LET ready == {i \in DOMAIN p : p[i].id \notin done
                                   /\ p[i].dependencies \subseteq done}
    IN IF Cardinality(done) >= Len(p) \/ ready = {} THEN <<>>
       ELSE <<Min(ready)>> \o Schedule(p, done \cup {p[Min(ready)].id})

IsPrefix(a, b) == Len(a) <= Len(b) /\ \A k \in DOMAIN a : a[k] = b[k]

\* C8: the step chosen is the earliest one in plan.steps that is not completed
\* and has all its dependencies completed, so the steps a non-interactive run
\* hands to session.chat are a function of the plan alone.
C8_FirstExecutableChosen ==
    /\ pc \in {"approve", "answered", "chat"} =>
          /\ plan[step].id \notin completed_steps
          /\ plan[step].dependencies \subseteq completed_steps
          /\ \A i \in 1..(step - 1) :
                plan[i].id \in completed_steps
                \/ ~(plan[i].dependencies \subseteq completed_steps)
    /\ ~interactive => IsPrefix(chatted, Schedule(plan, {}))

C8_Witness ==
    /\ pc = "chat"
    /\ ~interactive
    /\ Len(get_executable_steps(plan, completed_steps)) >= 2
    /\ chatted = <<>>

\* C9 (as claimed): a plan with a dependency cycle through two or more steps
\* gets a cycle error from validate(), and get_executable_steps, called on
\* the completed sets built up from the empty one, never returns a step of
\* such a cycle.
C9_LongCycleReportedAndNeverRun ==
    /\ (pc \notin {"plan", "idle"} /\ \E i \in DOMAIN plan : InLongCycle(plan, i)) =>
          \E k \in DOMAIN errors : errors[k].kind = "cycle"
    /\ \A k \in DOMAIN executable : ~InLongCycle(plan, executable[k])

\* C10: validate() returns no error for a plan without cycles and without
\* dangling references, and for every dependency id absent from the plan it
\* returns an error naming the step and the id.
C10_ValidateSoundOnDags ==
    pc \notin {"plan", "idle"} =>
        /\ ((\A i \in DOMAIN plan : ~OnCycle(plan, i)) /\ ~HasDangling(plan))
              => errors = <<>>
        /\ \A i \in DOMAIN plan : \A d \in Ids :
              Dangling(plan, i, d) =>
                 Err("missing", plan[i].id, d) \in Range(errors)

C10_Witness ==
    /\ pc = "validated"
    /\ errors = <<>>
    /\ Len(plan) = MaxPlanSteps
    /\ \A i \in DOMAIN plan : ~OnCycle(plan, i)
    /\ ~HasDangling(plan)
    /\ \E i \in DOMAIN plan : plan[i].dependencies # {}

\* C11 (as claimed): for every acyclic plan, calling get_executable_steps
\* repeatedly from the empty completed set and adding what it returns ends
\* with every step's id in completed.
C11_AcyclicExhausts ==
    (pc = "exhausted" /\ \A i \in DOMAIN plan : ~OnCycle(plan, i))
        => step_ids(plan) \subseteq completed_steps

\* C11 (amended): for every plan without cycles and without dangling
\* references the repeated calls end with every step's id in completed; each
\* call that returns steps enlarges completed, and every step it returns has
\* all its dependencies in the completed set it was called with.
C11_ClosedAcyclicExhausts ==
    /\ []((/\ pc = "exhausted"
           /\ \A i \in DOMAIN plan : ~OnCycle(plan, i)
           /\ ~HasDangling(plan))
             => step_ids(plan) \subseteq completed_steps)
    /\ [][pc' = "scheduling" =>
            /\ \A k \in DOMAIN executable' :
                  plan[executable'[k]].dependencies \subseteq completed_steps
            /\ completed_steps \subseteq completed_steps'
            /\ completed_steps' # completed_steps]_vars

C11_Witness ==
    /\ pc = "exhausted"
    /\ Len(plan) = MaxPlanSteps
    /\ \A i \in DOMAIN plan : ~OnCycle(plan, i)
    /\ ~HasDangling(plan)
    /\ \E i \in DOMAIN plan : plan[i].dependencies # {}
    /\ step_ids(plan) \subseteq completed_steps

\* C12: get_executable_steps(completed) returns, in the order of plan.steps
\* and each once, exactly the steps whose id is not in completed and whose
\* dependencies are all in completed; the plan and completed are as before.
C12_ExecutableExactlyReady ==
    /\ [](pc = "queried" =>
            /\ \A k \in 1..(Len(executable) - 1) : executable[k] < executable[k + 1]
            /\ Range(executable) =
                  {i \in DOMAIN plan : /\ plan[i].id \notin completed_steps
                                       /\ plan[i].dependencies \subseteq completed_steps})
    /\ [][pc = "query" => plan' = plan /\ completed_steps' = completed_steps]_vars

C12_Witness ==
    /\ pc = "queried"
    /\ Len(plan) = MaxSteps
    /\ \E k \in DOMAIN executable : plan[executable[k]].dependencies # {}
    /\ \E i \in DOMAIN plan : plan[i].id \in completed_steps

\* C13 (as claimed): a chat whose worker layer fails, by being unavailable or
\* by raising, does not raise: it returns the error string, and the Turn log
\* grows by the user Turn and then an assistant Turn holding that string.
\* Stated for sessions without auto-persistence, where nothing but the
\* worker layer can fail.
C13_WorkerFailureReturnsError ==
    [][(/\ outcome'.op = "chat"
        /\ ~auto_persist
        /\ outcome'.worker \in {"supervisor_raises", "fallback_error"})
          => /\ ~outcome'.raised
             /\ outcome'.value = ErrorResponse
             /\ history' = history \o <<Turn("user", "msg"),
                                        Turn("assistant", outcome'.value)>>]_vars

\* C14: every chat call appends exactly one SessionSnapshot; its turn count
\* is the history with the user Turn and without the response, its data is
\* the state as it was before the worker layer ran, and its mode is the mode
\* of the session at the call.
C14_SnapshotBeforeResponse ==
    [][outcome'.op = "chat" =>
          /\ Len(snapshots') = Len(snapshots) + 1
          /\ \A k \in DOMAIN snapshots : snapshots'[k] = snapshots[k]
          /\ snapshots'[Len(snapshots')] =
                [turn_count |-> Len(history) + 1, data |-> state, mode |-> mode]
          /\ history'[Len(history) + 1] = Turn("user", "msg")]_vars

C14_Witness ==
    /\ outcome.op = "chat"
    /\ ~outcome.raised
    /\ outcome.worker = "supervisor_ok"
    /\ snapshots # <<>>
    /\ snapshots[Len(snapshots)].data # state
    /\ snapshots[Len(snapshots)].turn_count = Len(history) - 1

\* C15: every switch_mode(m) call sets the mode to m and appends exactly one
\* Turn, the system Turn of the transition; with auto-persistence a call that
\* returns has written the session's record, and without it no file changes.
C15_SwitchModeOneSystemTurn ==
    [][outcome'.op = "switch_mode" =>
          /\ mode' = outcome'.value
          /\ history' = Append(history, Turn("system", outcome'.value))
          /\ (auto_persist /\ ~outcome'.raised) =>
                \E dir \in Dirs :
                    /\ files'[dir][LiveId].pkl = Full(session_record(Live)')
                    /\ files'[dir][LiveId].json = Full(session_record(Live)')
          /\ ~auto_persist => files' = files /\ ~outcome'.raised
          /\ UNCHANGED <<state, snapshots>>]_vars

C15_Witness ==
    /\ outcome.op = "switch_mode"
    /\ ~outcome.raised
    /\ auto_persist
    /\ Len(history) >= 2
    /\ history[Len(history) - 1] = Turn("system", "auto")
    /\ history[Len(history)] = Turn("system", "manual")
    /\ mode = "manual"

\* C16 (as claimed): for a session with auto-persistence, after every chat or
\* switch_mode call that returns, loading the session's id from the store of
\* the session's data_dir gives the turn history, state and mode of the live
\* session.
C16_StoredRecordFollowsLive ==
    (auto_persist /\ outcome.op \in {"chat", "switch_mode"} /\ ~outcome.raised)
        => LET r == load_session(files[data_dir][LiveId])
           IN /\ ~r.raised
              /\ r.session.history = history
              /\ r.session.state = state
              /\ r.session.mode = mode

\* C17: store.save_session(session) followed by store.load_session of the
\* session's id returns a session with the same session id, Turns in the same
\* order, state contents and mode.
C17_SaveLoadRoundTrip ==
    [][(/\ outcome.op = "save" /\ ~outcome.raised
        /\ outcome'.op = "load" /\ outcome'.id = LiveId)
          => /\ ~outcome'.raised
             /\ loaded'.session_id = LiveId
             /\ loaded'.history = history
             /\ loaded'.state = state
             /\ loaded'.mode = mode]_vars

C17_Witness ==
    /\ outcome.op = "load"
    /\ outcome.id = LiveId
    /\ loaded.session_id = LiveId
    /\ loaded.history = history
    /\ Len(history) = 2
    /\ state # InitData
    /\ loaded.state = state
    /\ mode = "auto"
    /\ loaded.mode = mode

\* C18 (as claimed): the session load_session returns after a save has the
\* list of SessionSnapshots of the session saved, and saving a loaded
\* session does not shorten the snapshot list of the record.
C18_SnapshotsRoundTrip ==
    /\ [][(/\ outcome.op = "save" /\ ~outcome.raised
           /\ outcome'.op = "load" /\ outcome'.id = LiveId)
             => loaded'.snapshots = snapshots]_vars
    /\ [][(/\ outcome'.op = "save_loaded" /\ ~outcome'.raised
           /\ files[data_dir][outcome'.id].pkl.state = "full")
             => Len(files'[data_dir][outcome'.id].pkl.data.snapshots)
                  >= Len(files[data_dir][outcome'.id].pkl.data.snapshots)]_vars

\* C19: a second save of the same session leaves what load returns as the
\* first save left it, and a save that returns leaves under the id exactly
\* the record of the session saved, whatever the files held before, and
\* leaves the files of the other ids alone.
C19_SaveIdempotentLastWins ==
    /\ [][(/\ outcome.op = "save" /\ ~outcome.raised
           /\ outcome'.op = "save" /\ ~outcome'.raised)
             => load_session(files'[data_dir][LiveId])
                  = load_session(files[data_dir][LiveId])]_vars
    /\ [][(outcome'.op \in {"save", "save_loaded"} /\ ~outcome'.raised)
             => LET x == IF outcome'.op = "save" THEN Live ELSE loaded
                    rec == Full(session_record(x))
                IN /\ files'[data_dir][outcome'.id] = [pkl |-> rec, json |-> rec]
                   /\ load_session(files'[data_dir][outcome'.id]).session =
                         Session(x.session_id, x.mode, x.history, x.state,
                                 <<>>, FALSE)
                   /\ \A i \in SessionIds \ {outcome'.id} :
                         files'[data_dir][i] = files[data_dir][i]]_vars

C19_Witness ==
    /\ outcome.op = "save"
    /\ ~outcome.raised
    /\ outcome.existed
    /\ history # <<>>
    /\ files[data_dir][LiveId].pkl = Full(session_record(Live))

\* C20: for an id without files delete_session returns False and del raises
\* KeyError, and no file changes; for an id with files both remove them,
\* delete_session returns True and del does not raise; neither touches the
\* files of another id.
C20_DeleteMissingAndPresent ==
    [][outcome'.op \in {"delete_session", "delitem"} =>
          LET id == outcome'.id
              had == files[data_dir][id] # NoRecord
          IN /\ had => files'[data_dir][id] = NoRecord
             /\ ~had => files' = files
             /\ \A i \in SessionIds \ {id} : files'[data_dir][i] = files[data_dir][i]
             /\ outcome'.op = "delete_session" =>
                   /\ ~outcome'.raised
                   /\ outcome'.value = (IF had THEN "True" ELSE "False")
             /\ outcome'.op = "delitem" => (outcome'.raised <=> ~had)]_vars

C20_Witness ==
    /\ outcome.op = "delitem"
    /\ outcome.raised
    /\ ~outcome.existed
    /\ \E i \in SessionIds : files[data_dir][i] # NoRecord

\* C21 (as claimed): after any sequence of store calls, a failed save
\* included, the two files of an id either both exist and hold the session
\* data of one save, or neither exists.
C21_PickleAndJsonInSync ==
    \A i \in SessionIds :
        \/ files[data_dir][i] = NoRecord
        \/ /\ files[data_dir][i].pkl.state = "full"
           /\ files[data_dir][i].json = files[data_dir][i].pkl

\* C28 (as claimed): when execute_plan returns success=True the id of every
\* step of the plan is in the completed steps it returns.
C28_SuccessMeansAllCompleted ==
    (pc = "returned" /\ ret.success) => step_ids(plan) \subseteq ret.completed_steps

\* C22: store[id] = session with another id than the session's stores, when the
\* save succeeds, a record under id holding the session's data with
\* session_id = id; the caller's session keeps its id, mode, history, state and
\* snapshots; the files under the session's own id are left as they were.
C22_SetItemStoresCopyUnderId ==
    [][(outcome'.op = "setitem" /\ outcome'.id # session_id) =>
          /\ ~outcome'.raised =>
                /\ files'[data_dir][outcome'.id].pkl =
                      Full([session_record(Live) EXCEPT !.session_id = outcome'.id])
                /\ files'[data_dir][outcome'.id].json = files'[data_dir][outcome'.id].pkl
          /\ session_id' = session_id
          /\ mode' = mode
          /\ history' = history
          /\ state' = state
          /\ snapshots' = snapshots
          /\ files'[data_dir][session_id] = files[data_dir][session_id]]_vars

C22_Witness ==
    /\ outcome.op = "setitem"
    /\ ~outcome.raised
    /\ outcome.id # session_id
    /\ files[data_dir][outcome.id].pkl.state = "full"
    /\ files[data_dir][outcome.id].pkl.data.session_id = outcome.id
    /\ files[data_dir][session_id].pkl.state = "full"

\* the saves and deletes of id i that were made all returned: no file of i,
\* or both files of one save
Completed(i) ==
    \/ files[data_dir][i] = NoRecord
    \/ /\ files[data_dir][i].pkl.state = "full"
       /\ files[data_dir][i].json = files[data_dir][i].pkl

\* C24: when the saves and deletes made have all returned, iterating the store
\* yields exactly the ids that have a record, each once; len(store) is their
\* number; an id is yielded exactly when load_session of it returns a session.
C24_IterationMatchesRecords ==
    (outcome.op = "iter" /\ \A i \in SessionIds : Completed(i)) =>
        /\ DOMAIN listed = {i \in SessionIds : files[data_dir][i] # NoRecord}
        /\ \A i \in DOMAIN listed : listed[i] = i
        /\ store_len(files[data_dir]) = Cardinality(DOMAIN listed)
        /\ \A i \in SessionIds :
              (\E j \in DOMAIN listed : listed[j] = i)
                  <=> load_session(files[data_dir][i]).session # NoSession

C24_Witness ==
    /\ outcome.op = "iter"
    /\ \A i \in SessionIds : Completed(i)
    /\ DOMAIN listed = {LiveId}
    /\ \E i \in SessionIds : i # LiveId /\ files[data_dir][i] = NoRecord

\* C29 (as claimed): "id in store" is true exactly when id has a record, and
\* store.get(id, default) returns default for an id that has none.
C29_FacadeAgreesWithRecords ==
    /\ (outcome.op = "contains" /\ ~outcome.raised) =>
          (outcome.value = "True" <=> files[data_dir][outcome.id] # NoRecord)
    /\ (outcome.op = "get" /\ files[data_dir][outcome.id] = NoRecord) =>
          outcome.value = "default"

\* C30: a session returned by load_session has auto_persist off, and its
\* chat() and switch_mode() calls leave every stored file as it was, also when
\* the session saved was created with auto_persist on.
C30_LoadedSessionDoesNotAutoSave ==
    /\ [](loaded # NoSession => ~loaded.auto_persist)
    /\ [][outcome'.op \in {"loaded_chat", "loaded_switch_mode"} => files' = files]_vars

C30_Witness ==
    /\ auto_persist
    /\ outcome.op = "loaded_chat"
    /\ ~outcome.raised
    /\ loaded # NoSession
    /\ files[data_dir][loaded.session_id].pkl.state = "full"
    /\ files[data_dir][loaded.session_id].pkl.data.history # loaded.history

\* C23 (as claimed): a load or a listing made while another user of the
\* directory is inside a save or a delete of the same id sees the complete
\* previous record, the complete new record or no record: the load does not
\* fail on a half-written file, and an id the listing yields can be loaded.
C23_OperationsAtomicPerId ==
    /\ outcome.op = "load" => ~outcome.raised
    /\ outcome.op = "list_sessions" =>
          \A i \in DOMAIN listed : load_session(files[data_dir][i]).session # NoSession

\* the last k elements of a list, none for k = 0
LastTurns(turns, k) ==
    SubSeq(turns, Len(turns) - k + 1, Len(turns))

\* C27 (as claimed): get_recent_turns(n) returns the last min(n, number of
\* turns) turns in order, none for n = 0; get_recent_turns() returns the last
\* max_recent_turns turns; get_all_turns() returns the whole log.
C27_RecentTurnsAreLastN ==
    /\ (outcome.op = "get_recent_turns" /\ arg.given) =>
          result = LastTurns(history, IF arg.n < Len(history) THEN arg.n ELSE Len(history))
    /\ (outcome.op = "get_recent_turns" /\ ~arg.given) =>
          result = LastTurns(history, IF max_recent_turns < Len(history)
                                      THEN max_recent_turns ELSE Len(history))
    /\ outcome.op = "get_all_turns" => result = history

\* what the dict at address a holds under key: a str, a dict, or nothing
Held(h, a, key) ==
    IF IsRef(h[a][key]) THEN Dict(h[h[a][key].ref]) ELSE h[a][key]

\* C25 (as claimed): update does not raise, and for each key of updates: when
\* the value held and the new value are both dicts the new entries are merged
\* into the dict held, the entries not named being kept; in every other case
\* the key holds the new value afterwards.
C25_UpdateMergesOrReplaces ==
    [][(pc = "update" /\ pc' = "updated") =>
          /\ ~outcome'.raised
          /\ \A i \in 1..Len(arg) :
                LET key == arg[i][1]
                    new == arg[i][2]
                    old == Held(heap, state, key)
                IN IF IsDict(old) /\ IsDict(new)
                   THEN /\ heap'[state][key] = heap[state][key]
                        /\ Held(heap', state, key) = Dict(dict_update(old.dict, new.dict))
                   ELSE Held(heap', state, key) = new]_vars

\* the content of the dict at address a, the dicts it holds included
Tree(h, a) == [k \in AllKeys |-> Held(h, a, k)]

\* the dict at address a and the dicts it holds
Reach(h, a) == {a} \cup {h[a][k].ref : k \in dict_keys(h, a)}

\* C26: a snapshot and the live state have no dict object in common; an
\* update, an item assignment or a nested write on the live state leaves the
\* content of every snapshot held as it was, and a write into a snapshot
\* leaves the content of the live state as it was.
C26_SnapshotIndependentOfLiveState ==
    /\ [](\A i \in 1..Len(snapshots) :
             Reach(heap, snapshots[i]) \cap Reach(heap, state) = {})
    /\ [][/\ outcome'.op \in {"update", "setitem", "nested_set"} =>
               \A i \in 1..Len(snapshots) :
                   Tree(heap', snapshots[i]) = Tree(heap, snapshots[i])
          /\ outcome'.op = "snapshot_nested_set" =>
               Tree(heap', state) = Tree(heap, state)]_vars

C26_Witness ==
    /\ pc = "state"
    /\ outcome.op = "nested_set"
    /\ Len(snapshots) >= 1
    /\ dict_keys(heap, snapshots[1]) # {}
    /\ dict_keys(heap, state) # {}
    /\ Tree(heap, snapshots[1]) # Tree(heap, state)

====
